---------------------------- MODULE Spec2Model ----------------------------
(***************************************************************************)
(* Model of the HTTP execution / retry / authentication core of the Power  *)
(* Platform Terraform provider and of the service clients built on it.     *)
(*                                                                         *)
(*   Spec         Client.Execute: one request through the retry loop       *)
(*   SpecAppUser  ApplicationUserClient.CreateApplicationUser              *)
(*   SpecToken    the Token Cache (GetOrRefresh / GetTokenForScopes)       *)
(*   SpecLRO      the long-running-operation poller                        *)
(*   SpecWebsite  WebsiteResource and the Power Pages client               *)
(*   SpecCred     the Credential Provider (Auth.GetTokenForScopes)         *)
(*   SpecRest     the REST client (SendOperation / ExecuteApiRequest)      *)
(*   SpecAppInstall  EnvironmentApplicationPackageInstallResource          *)
(*   SpecAppUserResource  ApplicationUserResource and its client           *)
(*                                                                         *)
(* Every specification starts from Init and leaves the variables of the    *)
(* other components unchanged.                                             *)
(***************************************************************************)
EXTENDS Integers, Sequences, FiniteSets, TLC

VARIABLES
    \* ---- Client.Execute ----
    exPc,          \* "start" | "inflight" | "wait" | "done"
    acceptable,    \* acceptableStatusCodes of the call
    attempts,      \* HTTP calls made so far
    lastStatus,    \* status code of the last response (0: none yet)
    lastBody,      \* body of the last response
    lastRetryAfter,\* Retry-After header of the last response: << >> or <<seconds>>
    waitFor,       \* the wait computed for the current retry wait, seconds
    token,         \* generation of the bearer token of the last request (0: none)
    n401,          \* 401 responses received so far
    ctxDone,       \* the call's context is canceled or past its deadline
    result,        \* what Execute returned: [kind, status, body]
    \* ---- ApplicationUserClient.CreateApplicationUser ----
    auPc,          \* "post" | "sleep" | "get" | "done"
    retryCount,    \* the loop's retryCount
    auErr,         \* err: "empty" | "nil" | "userNotLicensed" | "other" | "ctx"
    auPosts,       \* POST addUser requests issued
    auGets,        \* GETs of the user issued
    auSleepLeft,   \* seconds left of the time.Sleep under way
    auCtxDone,     \* the call's context is canceled or past its deadline
    auResult,      \* what CreateApplicationUser returned: [dto, err]
    \* ---- Token Cache ----
    now,           \* the clock
    cache,         \* scope key -> [gen, expiry] (gen 0: no entry)
    inFlight,      \* scope key -> a refresh is in flight
    providerCalls, \* scope key -> Credential Provider invocations so far
    tcPc,          \* caller -> "idle" | "refreshing" | "awaiting" | "have" | "failed"
    tcKey,         \* caller -> the scope key of its call
    tcFlight,      \* caller -> the refresh its call takes part in (0: none)
    tcGot,         \* caller -> the token returned to it: [gen, expiry, at]
    \* ---- Long-running-operation poller ----
    lroPc,         \* "call" | "poll" | "wait" | "done"
    phase,         \* "None" | "Created" | "Running" | "Succeeded" | "Failed"
                   \*   | "Canceled" | "TimedOut"
    phases,        \* the phases gone through, in order
    seen,          \* the poll responses received, in order
    lroLastBody,   \* body of the last response received
    elapsed,       \* time waited so far
    lroWait,       \* length of the poll wait under way
    lroCtx,        \* "live" | "canceled" | "deadline"
    lroResult,     \* what is returned to the caller: [kind, body]
    opRetries,     \* times the lifecycle operation was issued again
    \* ---- WebsiteResource / Power Pages client ----
    wsPc,          \* "idle" | "createWebsite"
    wsPlan,        \* the plan of the handler under way ("none": no plan)
    wsState,       \* the Terraform state of the resource ("null": none)
    wsDiag,        \* the error diagnostic of the last handler ("": none)
    wsStatus,      \* status code of the last CreateWebsite response (0: none)
    wsBody,        \* body of that response
    wsSeen,        \* statuses of the responses to the CreateWebsite under way
    wsExecErr,     \* err returned by Execute to CreateWebsite
    wsErr,         \* what CreateWebsite returned: [kind, body]
    wsRemote,      \* the websites whose creation the API has accepted
    wsOpPhase,     \* phase of the operation the last 202 started
    wsRequests,    \* HTTP requests issued by the handlers so far
    wsLast,        \* the handler that returned last
    wsOps,         \* handlers run so far
    \* ---- Credential Provider ----
    crPc,          \* "configure" | "call" | "resolve" | "provider" | "return"
                   \*   | "done"
    crConfig,      \* the credential methods the configuration provides
    crCertRaw,     \* config.ClientCertificateRaw: base64 text
    crScopes,      \* the scopes asked for
    crMethod,      \* the method selected ("none": not selected)
    crCert,        \* what ConvertBase64ToCert returned: [certs, key, err]
    crNetCalls,    \* calls to the identity provider so far
    crExpiry,      \* tokenExpiry
    crTokenA,      \* the token of run A
    crTokenB,      \* the token of run B, a run differing only in the token
    crErr,         \* err returned by GetTokenForScopes
    crLogA,        \* log lines of run A
    crLogB,        \* log lines of run B
    \* ---- REST client ----
    rsPc,          \* "idle" | "apiRequest" | "inflight" | "done"
    rsScope,       \* scope of the operation ("nil": none)
    rsUrl,         \* operation.Url
    rsSent,        \* URLs of the HTTP requests sent
    rsOutcome,     \* "none" | "ok" | "error" | "panic"
    rsOps,         \* operations finished so far
    \* ---- EnvironmentApplicationPackageInstallResource ----
    aiPc,          \* "idle" | "dataverseExists" | "install"
    aiPlan,        \* unique name of the application in the plan ("none")
    aiState,       \* the Terraform state of the resource ("null": none)
    aiInstalled,   \* the applications installed in the environment
    aiRequests,    \* API requests issued by the handlers so far
    aiDiag,        \* the error diagnostic of the last handler ("": none)
    aiLast,        \* the handler that returned last
    aiOps,         \* handlers run so far
    \* ---- ApplicationUserResource and the ApplicationUserClient ----
    arPc,          \* "idle" | "env" | "mutate" | "envForGet" | "get" | "ret"
    arHandler,     \* the handler under way, or the one that returned last
    arCall,        \* the client function under way, or that returned last
    arArgs,        \* securityRolesIds of the Add/RemoveSecurityRoles call
    arQueue,       \* the role ids that call has not reached yet
    arRetryCount,  \* retryCount of CreateApplicationUser
    arPlan,        \* the plan of the handler: [roles, dd]
    arPrior,       \* the state the handler read: [present, roles, dd, dto]
    arState,       \* the Terraform state: [present, roles, dd, dto]
    arDto,         \* the DTO the last client call returned: [nil, roles]
    arDtoAt,       \* the place in arLog of the GET arDto came from (0: none)
    arErr,         \* the err the last client call returned
    arDiag,        \* the error diagnostic of the handler ("": none)
    arWrote,       \* the handler has called State.Set
    arLog,         \* the requests the handler has sent, in order
    arCallStart,   \* length of arLog when the client call began
    arCalls,       \* client calls the handler has made and their err
    arMutFailed,   \* a mutating request of the client call failed
    arRemote,      \* the remote application user: [user, roles]
    arRemoteAtStart, \* the remote application user when the handler began
    arOps          \* handlers run so far

exVars == <<exPc, acceptable, attempts, lastStatus, lastBody, lastRetryAfter,
            waitFor, token, n401, ctxDone, result>>

auVars == <<auPc, retryCount, auErr, auPosts, auGets, auSleepLeft, auCtxDone,
            auResult>>

tcVars == <<now, cache, inFlight, providerCalls, tcPc, tcKey, tcFlight, tcGot>>

lroVars == <<lroPc, phase, phases, seen, lroLastBody, elapsed, lroWait, lroCtx,
             lroResult, opRetries>>

wsVars == <<wsPc, wsPlan, wsState, wsDiag, wsStatus, wsBody, wsSeen, wsExecErr,
            wsErr, wsOpPhase, wsRemote, wsRequests, wsLast, wsOps>>

crVars == <<crPc, crConfig, crCertRaw, crScopes, crMethod, crCert, crNetCalls,
            crExpiry, crTokenA, crTokenB, crErr, crLogA, crLogB>>

rsVars == <<rsPc, rsScope, rsUrl, rsSent, rsOutcome, rsOps>>

aiVars == <<aiPc, aiPlan, aiState, aiInstalled, aiRequests, aiDiag, aiLast,
            aiOps>>

arVars == <<arPc, arHandler, arCall, arArgs, arQueue, arRetryCount, arPlan,
            arPrior, arState, arDto, arDtoAt, arErr, arDiag, arWrote, arLog,
            arCallStart,
            arCalls, arMutFailed, arRemote, arRemoteAtStart, arOps>>

vars == <<exVars, auVars, tcVars, lroVars, wsVars, crVars, rsVars, aiVars,
          arVars>>

\* What an action of one component leaves alone: the other components.
ExFrame == UNCHANGED <<auVars, tcVars, lroVars, wsVars, crVars, rsVars, aiVars, arVars>>

AuFrame == UNCHANGED <<exVars, tcVars, lroVars, wsVars, crVars, rsVars, aiVars, arVars>>

TcFrame == UNCHANGED <<exVars, auVars, lroVars, wsVars, crVars, rsVars, aiVars, arVars>>

LroFrame == UNCHANGED <<exVars, auVars, tcVars, wsVars, crVars, rsVars, aiVars, arVars>>

WsFrame == UNCHANGED <<exVars, auVars, tcVars, lroVars, crVars, rsVars, aiVars, arVars>>

CrFrame == UNCHANGED <<exVars, auVars, tcVars, lroVars, wsVars, rsVars, aiVars, arVars>>

RsFrame == UNCHANGED <<exVars, auVars, tcVars, lroVars, wsVars, crVars, aiVars, arVars>>

AiFrame == UNCHANGED <<exVars, auVars, tcVars, lroVars, wsVars, crVars, rsVars,
                       arVars>>

ArFrame == UNCHANGED <<exVars, auVars, tcVars, lroVars, wsVars, crVars, rsVars,
                       aiVars>>

-----------------------------------------------------------------------------
(* Bounds of the model *)

\* HTTP calls one Execute may make in the model (the code's loop has no cap).
MaxCalls == 6

\* The configured cap on attempts the Retry Controller is specified to have.
RetryCap == 4

\* Concurrent callers of the Token Cache.
NumCallers == 2

\* How far the Token Cache's clock runs.
MaxTime == 4

\* The poller's maximum total wait, in poll-interval units.
MaxWait == 4

\* Credential Provider invocations, over all scope keys, in the model.
MaxRefreshes == 2

\* Times a lifecycle operation is issued again in the model.
MaxOpRetries == 2

\* Handlers of the website resource run in the model.
MaxWsOps == 4

\* How far a token's expiry lies ahead, at most.
MaxExpiry == 2

\* Operations sent through the REST client in the model.
MaxRestOps == 2

\* Handlers of the application package install resource run in the model.
MaxAiOps == 4

\* Handlers of the application user resource run in the model.
MaxArOps == 2

\* Security roles a plan lists, at most.
MaxRoles == 2

-----------------------------------------------------------------------------
(* Client.Execute *)

\* Status codes the server answers with.
Statuses == {200, 202, 401, 404, 429, 503}

Bodies == {"b1", "b2"}

\* Retry-After headers a response may carry: none, 5 s, 120 s, 300 s.
RetryAfterHeaders == {<< >>, <<5>>, <<120>>, <<300>>}

\* acceptableStatusCodes as the service clients pass them.
AcceptableSets == {{200}, {200, 404}, {401, 400, 202, 404}}

\* var retryableStatusCodes = []int{http.StatusUnauthorized, ...}; the entries
\* the listing elides are those of the Retry Controller's contract.
retryableStatusCodes == {401, 429, 500, 502, 503, 504}

\* rand.Intn(10): the number of values the jitter is drawn from.
JitterSpan == 10

\* the "+ 10" of DefaultRetryAfter, seconds.
JitterBase == 10

\* The maximum a Retry-After header is honoured for, seconds.
RetryAfterClamp == 120

Min(a, b) == IF a <= b THEN a ELSE b

\* DefaultRetryAfter with the unit slipped from seconds to minutes.
DefaultRetryAfterMinutes == {(j + JitterBase) * 60 : j \in 0..(JitterSpan - 1)}

\* DefaultRetryAfter(): time.Duration(rand.Intn(10) + 10) * time.Second,
\* as the set of values one call may return.
DefaultRetryAfter == {j + JitterBase : j \in 0..(JitterSpan - 1)}

\* isRetryable taking every error status for a transient one.
isRetryableAnyError(status) == status >= 400

\* array.Contains(retryableStatusCodes, resp.HttpResponse.StatusCode)
isRetryable(status) == status \in retryableStatusCodes

\* the acceptable-status check of Execute
isAcceptable(status, acc) == status \in acc

\* retryAfter(ctx, resp): the waits it may return for a response's header.
retryAfter(header) ==
    IF header = << >> THEN DefaultRetryAfter
    ELSE {Min(header[1], RetryAfterClamp)}

NoResult == [kind |-> "none", status |-> 0, body |-> ""]

\* customerrors.NewUnexpectedHttpStatusCodeError(acceptable, code, status, body)
NewUnexpectedHttpStatusCodeError(status, body) ==
    [kind |-> "UnexpectedHttpStatusCodeError", status |-> status, body |-> body]

ExInit ==
    /\ exPc = "start"
    /\ acceptable = {}
    /\ attempts = 0
    /\ lastStatus = 0
    /\ lastBody = ""
    /\ lastRetryAfter = << >>
    /\ waitFor = 0
    /\ token = 0
    /\ n401 = 0
    /\ ctxDone = FALSE
    /\ result = NoResult

\* GetTokenForScopes at the head of an iteration: the cached token, or a new
\* one from the Credential Provider when there is none or it has expired.
\* Nothing in Execute forces a refresh.
TokenForIteration == {token + 1} \cup (IF token = 0 THEN {} ELSE {token})

\* Execute is called with its acceptableStatusCodes; the first iteration of
\* the loop gets a token and makes the HTTP call.
ExecuteSend ==
    /\ exPc = "start"
    /\ ~ctxDone
    /\ attempts < MaxCalls
    /\ acceptable' \in AcceptableSets
    /\ token' \in TokenForIteration
    /\ attempts' = attempts + 1
    /\ exPc' = "inflight"
    /\ UNCHANGED <<lastStatus, lastBody, lastRetryAfter, waitFor,
                   n401, ctxDone, result>>
    /\ ExFrame

\* Classify with the retryable test made before the acceptable one.
ClassifyRetryableFirst(status, body, header) ==
    IF isRetryable(status)
    THEN /\ exPc' = "wait"
         /\ waitFor' \in retryAfter(header)
         /\ UNCHANGED result
    ELSE IF isAcceptable(status, acceptable)
    THEN /\ exPc' = "done"
         /\ result' = [kind |-> "ok", status |-> status, body |-> body]
         /\ waitFor' = 0
    ELSE /\ exPc' = "done"
         /\ result' = NewUnexpectedHttpStatusCodeError(status, body)
         /\ waitFor' = 0

\* What the loop body does with a response.
Classify(status, body, header) ==
    IF isAcceptable(status, acceptable)
    THEN /\ exPc' = "done"
         /\ result' = [kind |-> "ok", status |-> status, body |-> body]
         /\ waitFor' = 0
    ELSE IF ~isRetryable(status)
    THEN /\ exPc' = "done"
         /\ result' = NewUnexpectedHttpStatusCodeError(status, body)
         /\ waitFor' = 0
    ELSE /\ exPc' = "wait"
         /\ waitFor' \in retryAfter(header)
         /\ UNCHANGED result

\* A response arrives and the loop body classifies it.
ExecuteReceive ==
    /\ exPc = "inflight"
    /\ \E status \in Statuses, body \in Bodies, header \in RetryAfterHeaders :
          /\ lastStatus' = status
          /\ lastBody' = body
          /\ lastRetryAfter' = header
          /\ n401' = IF status = 401 THEN n401 + 1 ELSE n401
          /\ Classify(status, body, header)
    /\ UNCHANGED <<acceptable, attempts, token, ctxDone>>
    /\ ExFrame

\* The wait is over: the next iteration gets a token and resubmits.
ExecuteRetry ==
    /\ exPc = "wait"
    /\ ~ctxDone
    /\ attempts < MaxCalls
    /\ token' \in TokenForIteration
    /\ attempts' = attempts + 1
    /\ exPc' = "inflight"
    /\ UNCHANGED <<acceptable, lastStatus, lastBody, lastRetryAfter, waitFor,
                   n401, ctxDone, result>>
    /\ ExFrame

\* The caller's context is canceled, or its deadline passes.
ExecuteCancel ==
    /\ exPc # "done"
    /\ ~ctxDone
    /\ ctxDone' = TRUE
    /\ UNCHANGED <<exPc, acceptable, attempts, lastStatus, lastBody,
                   lastRetryAfter, waitFor, token, n401, result>>
    /\ ExFrame

\* Send, or the retry wait, ends with the context's error.
ExecuteCtxAbort ==
    /\ exPc \in {"start", "inflight", "wait"}
    /\ ctxDone
    /\ exPc' = "done"
    /\ result' = [kind |-> "ctx", status |-> 0, body |-> ""]
    /\ UNCHANGED <<acceptable, attempts, lastStatus, lastBody, lastRetryAfter,
                   waitFor, token, n401, ctxDone>>
    /\ ExFrame

ExNext ==
    \/ ExecuteSend
    \/ ExecuteReceive
    \/ ExecuteRetry
    \/ ExecuteCancel
    \/ ExecuteCtxAbort

-----------------------------------------------------------------------------
(* Properties of Client.Execute *)

\* C1: a response whose status is in the acceptable set ends the call with
\* success and that response, without resubmission: when it is the first
\* response exactly one HTTP call was made, also when the status is a
\* retryable code such as 401.
C1_AcceptableFirstResponse ==
    (lastStatus # 0 /\ lastStatus \in acceptable)
        => /\ exPc = "done"
           /\ result = [kind |-> "ok", status |-> lastStatus, body |-> lastBody]

C1_Witness ==
    /\ exPc = "done"
    /\ attempts = 1
    /\ lastStatus = 401
    /\ 401 \in acceptable
    /\ result.kind = "ok"

\* C2: whatever the server answers, Execute makes at most the configured cap
\* of HTTP calls.
C2_AttemptsWithinCap == attempts <= RetryCap

\* C3: a request is resubmitted after a 401 only with a token refreshed since
\* that 401, and never after a second 401.
C3_RefreshBeforeRetryOf401 ==
    [][(exPc = "wait" /\ lastStatus = 401 /\ attempts' = attempts + 1)
          => (token' # token /\ n401 <= 1)]_vars

\* C4: a response whose status is neither acceptable nor retryable ends the
\* call, without resubmission, in an UnexpectedHttpStatusCodeError carrying
\* that status code and body.
C4_UnexpectedStatusIsFatal ==
    (lastStatus # 0 /\ lastStatus \notin acceptable
                    /\ lastStatus \notin retryableStatusCodes)
        => /\ exPc = "done"
           /\ result = [kind |-> "UnexpectedHttpStatusCodeError",
                        status |-> lastStatus, body |-> lastBody]

C4_Witness ==
    /\ exPc = "done"
    /\ attempts = 2
    /\ lastStatus = 404
    /\ 404 \notin acceptable
    /\ result.kind = "UnexpectedHttpStatusCodeError"
    /\ result.body = "b2"

\* C5: once the attempt that uses up the retry budget has ended in a
\* retryable status, Execute has returned a RetryExhaustedError wrapping that
\* last response.
C5_RetryExhaustedWrapsLast ==
    (attempts = RetryCap /\ exPc # "inflight" /\ result.kind # "ctx"
        /\ lastStatus \notin acceptable /\ lastStatus \in retryableStatusCodes)
        => /\ exPc = "done"
           /\ result = [kind |-> "RetryExhaustedError",
                        status |-> lastStatus, body |-> lastBody]

\* C6: in a retry wait, a Retry-After header of s seconds gives a wait of
\* min(s, clamp), only a response without the header gets the default jittered
\* delay, and every wait is within 0 and the maximum delay.
C6_RetryAfterHonoured ==
    exPc = "wait"
        => /\ lastRetryAfter # << >>
                => waitFor = Min(lastRetryAfter[1], RetryAfterClamp)
           /\ lastRetryAfter = << >>
                => waitFor \in JitterBase..(JitterBase + JitterSpan - 1)
           /\ waitFor >= 0
           /\ waitFor <= RetryAfterClamp

C6_Witness ==
    /\ exPc = "wait"
    /\ lastStatus = 429
    /\ lastRetryAfter = <<5>>
    /\ waitFor = 5

-----------------------------------------------------------------------------
(* ApplicationUserClient.CreateApplicationUser *)

\* retryCount := 6 * 9 // 9 minutes of retries
RetryCountInit == 54

\* time.Sleep(10 * time.Second)
SleepSeconds == 10

\* What one client.Api.Execute call returns to the service client: no error,
\* an error whose text contains "userNotLicensed", or another error.
ExecuteErrors == {"nil", "userNotLicensed", "other"}

AuNoResult == [dto |-> "none", err |-> "none"]

AuInit ==
    /\ auPc = "post"
    /\ retryCount = RetryCountInit
    /\ auErr = "empty"
    /\ auPosts = 0
    /\ auGets = 0
    /\ auSleepLeft = 0
    /\ auCtxDone = FALSE
    /\ auResult = AuNoResult

\* A break test that leaves the loop on success only.
LeavesRetryLoopOnSuccessOnly(err) == err = "nil"

\* err == nil || !strings.Contains(err.Error(), "userNotLicensed")
LeavesRetryLoop(err) == err = "nil" \/ err # "userNotLicensed"

\* After the loop: if err != nil { return nil, err }, else the GET follows.
AuAfterLoop(err) ==
    IF err # "nil"
    THEN /\ auPc' = "done"
         /\ auResult' = [dto |-> "nil", err |-> err]
    ELSE /\ auPc' = "get"
         /\ UNCHANGED auResult

\* One iteration: Execute(ctx, "POST", addUser, ...), then the break test.
\* With a context already done Execute returns its error and sends nothing.
AuPost ==
    /\ auPc = "post"
    /\ \E err \in (IF auCtxDone THEN {"ctx"} ELSE ExecuteErrors) :
          /\ auErr' = err
          /\ auPosts' = IF auCtxDone THEN auPosts ELSE auPosts + 1
          /\ IF LeavesRetryLoop(err)
             THEN /\ AuAfterLoop(err)
                  /\ UNCHANGED auSleepLeft
             ELSE /\ auPc' = "sleep"
                  /\ auSleepLeft' = SleepSeconds
                  /\ UNCHANGED auResult
    /\ UNCHANGED <<retryCount, auGets, auCtxDone>>
    /\ AuFrame

\* A second of time.Sleep passes; time.Sleep does not look at the context.
AuSleepTick ==
    /\ auPc = "sleep"
    /\ auSleepLeft > 0
    /\ auSleepLeft' = auSleepLeft - 1
    /\ UNCHANGED <<auPc, retryCount, auErr, auPosts, auGets, auCtxDone, auResult>>
    /\ AuFrame

\* time.Sleep returns: retryCount--, then the loop test retryCount > 0.
AuWake ==
    /\ auPc = "sleep"
    /\ auSleepLeft = 0
    /\ retryCount' = retryCount - 1
    /\ IF retryCount - 1 > 0
       THEN /\ auPc' = "post"
            /\ UNCHANGED auResult
       ELSE AuAfterLoop(auErr)
    /\ UNCHANGED <<auErr, auPosts, auGets, auSleepLeft, auCtxDone>>
    /\ AuFrame

\* GetApplicationUserBySystemApplicationUserId after the POST succeeded.
AuGet ==
    /\ auPc = "get"
    /\ auGets' = IF auCtxDone THEN auGets ELSE auGets + 1
    /\ \E err \in (IF auCtxDone THEN {"ctx"} ELSE {"nil", "other"}) :
          auResult' = IF err = "nil" THEN [dto |-> "user", err |-> "nil"]
                                     ELSE [dto |-> "nil", err |-> err]
    /\ auPc' = "done"
    /\ UNCHANGED <<retryCount, auErr, auPosts, auSleepLeft, auCtxDone>>
    /\ AuFrame

\* The caller's context is canceled, or its deadline passes.
AuCancel ==
    /\ auPc # "done"
    /\ ~auCtxDone
    /\ auCtxDone' = TRUE
    /\ UNCHANGED <<auPc, retryCount, auErr, auPosts, auGets, auSleepLeft, auResult>>
    /\ AuFrame

AuNext ==
    \/ AuPost
    \/ AuSleepTick
    \/ AuWake
    \/ AuGet
    \/ AuCancel

\* C7: once the context is done, an operation that is in a wait stops
\* waiting: its next step returns the context's error. Stated for the
\* userNotLicensed retry loop of CreateApplicationUser.
C7_CancelEndsWait ==
    [][(auCtxDone /\ auPc = "sleep")
          => (auPc' = "done" /\ auResult'.err = "ctx")]_vars

-----------------------------------------------------------------------------
(* Token Cache: GetOrRefresh(ctx, scopes), keyed by normalized scope set *)

Callers == 1..NumCallers

ScopeKeys == {"bapi", "dataverse"}

\* Lifetime of a token the Credential Provider issues.
TokenLifetime == 3

\* safetyMargin of the cache-hit test.
SafetyMargin == 1

NoToken == [gen |-> 0, expiry |-> 0]

NoGot == [gen |-> 0, expiry |-> 0, at |-> 0]

TcInit ==
    /\ now = 0
    /\ cache = [k \in ScopeKeys |-> NoToken]
    /\ inFlight = [k \in ScopeKeys |-> FALSE]
    /\ providerCalls = [k \in ScopeKeys |-> 0]
    /\ tcPc = [p \in Callers |-> "idle"]
    /\ tcKey = [p \in Callers |-> "bapi"]
    /\ tcFlight = [p \in Callers |-> 0]
    /\ tcGot = [p \in Callers |-> NoGot]

\* The cache-hit test taking any entry for valid, whatever its expiry.
ValidIgnoringExpiry(tok, t) == tok.gen # 0

\* now < expiry - safetyMargin
Valid(tok, t) == tok.gen # 0 /\ t < tok.expiry - SafetyMargin

\* The single-flight test answering that no refresh is ever in flight.
RefreshInFlightNever(k) == FALSE

\* at most one in-flight refresh per scope key: is one in flight?
RefreshInFlight(k) == inFlight[k]

TotalProviderCalls == providerCalls["bapi"] + providerCalls["dataverse"]

\* A caller enters GetOrRefresh: a cache hit returns at once; a miss joins
\* the refresh in flight for the key, or starts one (invoking the provider).
GetOrRefresh(p, k) ==
    /\ tcPc[p] = "idle"
    /\ (Valid(cache[k], now) \/ RefreshInFlight(k) \/ TotalProviderCalls < MaxRefreshes)
    /\ tcKey' = [tcKey EXCEPT ![p] = k]
    /\ IF Valid(cache[k], now)
       THEN /\ tcPc' = [tcPc EXCEPT ![p] = "have"]
            /\ tcGot' = [tcGot EXCEPT ![p] = [gen |-> cache[k].gen,
                                              expiry |-> cache[k].expiry,
                                              at |-> now]]
            /\ tcFlight' = [tcFlight EXCEPT ![p] = 0]
            /\ UNCHANGED <<inFlight, providerCalls>>
       ELSE IF RefreshInFlight(k)
       THEN /\ tcPc' = [tcPc EXCEPT ![p] = "awaiting"]
            /\ tcFlight' = [tcFlight EXCEPT ![p] = providerCalls[k]]
            /\ UNCHANGED <<inFlight, providerCalls, tcGot>>
       ELSE /\ tcPc' = [tcPc EXCEPT ![p] = "refreshing"]
            /\ inFlight' = [inFlight EXCEPT ![k] = TRUE]
            /\ providerCalls' = [providerCalls EXCEPT ![k] = @ + 1]
            /\ tcFlight' = [tcFlight EXCEPT ![p] = providerCalls[k] + 1]
            /\ UNCHANGED tcGot
    /\ UNCHANGED <<now, cache>>
    /\ TcFrame

TcGetOrRefresh == \E p \in Callers, k \in ScopeKeys : GetOrRefresh(p, k)

\* Callers of the refresh that p leads: p and those awaiting it.
FlightOf(p) ==
    {q \in Callers : /\ tcKey[q] = tcKey[p]
                     /\ tcFlight[q] = tcFlight[p]
                     /\ tcPc[q] \in {"refreshing", "awaiting"}}

\* The Credential Provider returns a token: the entry is replaced and the
\* leader and every caller awaiting the refresh receive that token.
TcProviderReturns ==
    \E p \in Callers :
       /\ tcPc[p] = "refreshing"
       /\ LET k == tcKey[p]
              tok == [gen |-> tcFlight[p], expiry |-> now + TokenLifetime]
          IN /\ cache' = [cache EXCEPT ![k] = tok]
             /\ inFlight' = [inFlight EXCEPT ![k] = FALSE]
             /\ tcPc' = [q \in Callers |->
                           IF q \in FlightOf(p) THEN "have" ELSE tcPc[q]]
             /\ tcGot' = [q \in Callers |->
                           IF q \in FlightOf(p)
                           THEN [gen |-> tok.gen, expiry |-> tok.expiry, at |-> now]
                           ELSE tcGot[q]]
       /\ UNCHANGED <<now, providerCalls, tcKey, tcFlight>>
       /\ TcFrame

\* The Credential Provider fails: the leader and the callers awaiting the
\* refresh get the AuthError; the entry is left as it was.
TcProviderFails ==
    \E p \in Callers :
       /\ tcPc[p] = "refreshing"
       /\ inFlight' = [inFlight EXCEPT ![tcKey[p]] = FALSE]
       /\ tcPc' = [q \in Callers |->
                     IF q \in FlightOf(p) THEN "failed" ELSE tcPc[q]]
       /\ UNCHANGED <<now, cache, providerCalls, tcKey, tcFlight, tcGot>>
       /\ TcFrame

\* A caller is done with what it was returned.
TcRelease ==
    \E p \in Callers :
       /\ tcPc[p] \in {"have", "failed"}
       /\ tcPc' = [tcPc EXCEPT ![p] = "idle"]
       /\ tcFlight' = [tcFlight EXCEPT ![p] = 0]
       /\ tcGot' = [tcGot EXCEPT ![p] = NoGot]
       /\ tcKey' = [tcKey EXCEPT ![p] = "bapi"]
       /\ UNCHANGED <<now, cache, inFlight, providerCalls>>
       /\ TcFrame

\* Time passes.
TcTick ==
    /\ now < MaxTime
    /\ now' = now + 1
    /\ UNCHANGED <<cache, inFlight, providerCalls, tcPc, tcKey, tcFlight, tcGot>>
    /\ TcFrame

TcNext ==
    \/ TcGetOrRefresh
    \/ TcProviderReturns
    \/ TcProviderFails
    \/ TcRelease
    \/ TcTick

\* C8: for a scope key, at most one refresh is in flight at any time, callers
\* that find no valid token while it is in flight await it, and all callers
\* of one refresh receive the token of that one provider invocation.
C8_SingleFlight ==
    /\ \A k \in ScopeKeys :
          Cardinality({p \in Callers : tcPc[p] = "refreshing" /\ tcKey[p] = k}) <= 1
    /\ \A p \in Callers :
          tcPc[p] = "awaiting"
             => \E q \in Callers : /\ tcPc[q] = "refreshing"
                                   /\ tcKey[q] = tcKey[p]
                                   /\ tcFlight[q] = tcFlight[p]
    /\ \A p, q \in Callers :
          (tcPc[p] = "have" /\ tcPc[q] = "have" /\ tcKey[p] = tcKey[q]
              /\ tcFlight[p] # 0 /\ tcFlight[p] = tcFlight[q])
             => tcGot[p] = tcGot[q]
    /\ \A p \in Callers :
          (tcPc[p] = "have" /\ tcFlight[p] # 0) => tcGot[p].gen = tcFlight[p]
    /\ \A k \in ScopeKeys : cache[k].gen <= providerCalls[k]

\* Two callers of one key, neither served from the cache, hold the token of
\* the same single provider invocation.
C8_Witness ==
    \E p, q \in Callers :
       /\ p # q
       /\ tcPc[p] = "have" /\ tcPc[q] = "have"
       /\ tcKey[p] = tcKey[q]
       /\ tcFlight[p] # 0 /\ tcFlight[p] = tcFlight[q]
       /\ tcGot[p] = tcGot[q]
       /\ providerCalls[tcKey[p]] = 1

-----------------------------------------------------------------------------
(* Long-running-operation poller *)

\* What a poll of the operation URL answers: the operation's status field,
\* or HTTP 409.
PollKinds == {"Running", "Succeeded", "Failed", "Canceled", "Conflict"}

\* Poll intervals: fixed (1) or server-hinted (2).
PollIntervals == {1, 2}

LroNoResult == [kind |-> "none", body |-> ""]

LroInit ==
    /\ lroPc = "call"
    /\ phase = "None"
    /\ phases = << >>
    /\ seen = << >>
    /\ lroLastBody = ""
    /\ elapsed = 0
    /\ lroWait = 0
    /\ lroCtx = "live"
    /\ lroResult = LroNoResult
    /\ opRetries = 0

\* The phase after a poll that leaves the first poll in Created.
PhaseAfterPollKeepsCreated(kind, cur) ==
    CASE kind = "Succeeded" -> "Succeeded"
      [] kind = "Failed" -> "Failed"
      [] kind = "Canceled" -> "Canceled"
      [] OTHER -> cur

\* The phase after a poll that takes a 409 for a failure of the operation.
PhaseAfterPollConflictFails(kind, cur) ==
    CASE kind = "Succeeded" -> "Succeeded"
      [] kind \in {"Failed", "Conflict"} -> "Failed"
      [] kind = "Canceled" -> "Canceled"
      [] OTHER -> "Running"

\* The phase after a poll: completion, failure and cancellation are terminal;
\* in progress, and a 409, leave the operation Running.
PhaseAfterPoll(kind, cur) ==
    CASE kind = "Succeeded" -> "Succeeded"
      [] kind = "Failed" -> "Failed"
      [] kind = "Canceled" -> "Canceled"
      [] OTHER -> "Running"

Terminal(ph) == ph \in {"Succeeded", "Failed", "Canceled", "TimedOut"}

\* What a terminal phase returns when a failure carries a message of the
\* poller's own instead of the server's payload.
LroOutcomeOwnMessage(ph, body) ==
    CASE ph = "Succeeded" -> [kind |-> "ok", body |-> body]
      [] ph = "Failed" -> [kind |-> "OperationFailedError", body |-> ""]
      [] ph = "Canceled" -> [kind |-> "OperationCanceled", body |-> body]
      [] OTHER -> [kind |-> "TimeoutError", body |-> ""]

\* What a terminal phase returns when a timeout is reported as a failure.
LroOutcomeTimeoutAsFailure(ph, body) ==
    CASE ph = "Succeeded" -> [kind |-> "ok", body |-> body]
      [] ph = "Failed" -> [kind |-> "OperationFailedError", body |-> body]
      [] ph = "Canceled" -> [kind |-> "OperationCanceled", body |-> body]
      [] OTHER -> [kind |-> "OperationFailedError", body |-> ""]

\* What a terminal phase returns to the caller.
LroOutcome(ph, body) ==
    CASE ph = "Succeeded" -> [kind |-> "ok", body |-> body]
      [] ph = "Failed" -> [kind |-> "OperationFailedError", body |-> body]
      [] ph = "Canceled" -> [kind |-> "OperationCanceled", body |-> body]
      [] OTHER -> [kind |-> "TimeoutError", body |-> ""]

\* The initial call is answered: 202 with an operation URL creates the
\* operation descriptor; any other accepted answer is returned as it is.
LroCall ==
    /\ lroPc = "call"
    /\ \E accepted \in BOOLEAN, body \in Bodies :
          /\ lroLastBody' = body
          /\ IF accepted
             THEN /\ phase' = "Created"
                  /\ phases' = <<"Created">>
                  /\ lroPc' = "poll"
                  /\ UNCHANGED lroResult
             ELSE /\ lroPc' = "done"
                  /\ lroResult' = [kind |-> "ok", body |-> body]
                  /\ UNCHANGED <<phase, phases>>
    /\ UNCHANGED <<seen, elapsed, lroWait, lroCtx, opRetries>>
    /\ LroFrame

\* One poll: GET the operation URL, parse the status, move to the next
\* phase; a terminal phase returns, any other starts a poll wait.
LroPoll ==
    /\ lroPc = "poll"
    /\ lroCtx = "live"
    /\ \E kind \in PollKinds, body \in Bodies, interval \in PollIntervals :
          LET next == PhaseAfterPoll(kind, phase)
          IN /\ seen' = Append(seen, kind)
             /\ lroLastBody' = body
             /\ phase' = next
             /\ phases' = Append(phases, next)
             /\ IF Terminal(next)
                THEN /\ lroPc' = "done"
                     /\ lroResult' = LroOutcome(next, body)
                     /\ lroWait' = 0
                ELSE /\ lroPc' = "wait"
                     /\ lroWait' = interval
                     /\ UNCHANGED lroResult
    /\ UNCHANGED <<elapsed, lroCtx, opRetries>>
    /\ LroFrame

\* The poll wait is over: past the maximum total wait the operation is
\* TimedOut, otherwise the next poll follows.
LroWaitElapsed ==
    /\ lroPc = "wait"
    /\ lroCtx = "live"
    /\ elapsed' = elapsed + lroWait
    /\ lroWait' = 0
    /\ IF elapsed + lroWait >= MaxWait
       THEN /\ phase' = "TimedOut"
            /\ phases' = Append(phases, "TimedOut")
            /\ lroPc' = "done"
            /\ lroResult' = LroOutcome("TimedOut", "")
       ELSE /\ lroPc' = "poll"
            /\ UNCHANGED <<phase, phases, lroResult>>
    /\ UNCHANGED <<seen, lroLastBody, lroCtx, opRetries>>
    /\ LroFrame

\* The caller's context is canceled, or its deadline passes.
LroCtxDone ==
    /\ lroPc \in {"poll", "wait"}
    /\ lroCtx = "live"
    /\ lroCtx' \in {"canceled", "deadline"}
    /\ UNCHANGED <<lroPc, phase, phases, seen, lroLastBody, elapsed, lroWait,
                   lroResult, opRetries>>
    /\ LroFrame

\* Polling or waiting with a context that is done: a passed deadline is a
\* timeout, a cancellation returns the context's error.
LroCtxAbort ==
    /\ lroPc \in {"poll", "wait"}
    /\ lroCtx # "live"
    /\ lroPc' = "done"
    /\ lroWait' = 0
    /\ IF lroCtx = "deadline"
       THEN /\ phase' = "TimedOut"
            /\ phases' = Append(phases, "TimedOut")
            /\ lroResult' = LroOutcome("TimedOut", "")
       ELSE /\ lroResult' = [kind |-> "ctx", body |-> ""]
            /\ UNCHANGED <<phase, phases>>
    /\ UNCHANGED <<seen, lroLastBody, elapsed, lroCtx, opRetries>>
    /\ LroFrame

\* The lifecycle operation whose poll ended in 'Failed' ends there instead of
\* being issued again.
LroRetryFailedEndsOperation ==
    /\ lroPc = "done"
    /\ phase = "Failed"
    /\ opRetries < MaxOpRetries
    /\ lroPc' = "ended"
    /\ UNCHANGED <<phase, phases, seen, lroLastBody, elapsed, lroWait, lroCtx,
                   lroResult, opRetries>>
    /\ LroFrame

\* The lifecycle operation whose poll ended in 'Failed' is issued again: a
\* new initial call, a new operation descriptor, a new wait budget.
LroRetryFailed ==
    /\ lroPc = "done"
    /\ phase = "Failed"
    /\ opRetries < MaxOpRetries
    /\ opRetries' = opRetries + 1
    /\ lroPc' = "call"
    /\ phase' = "None"
    /\ phases' = << >>
    /\ seen' = << >>
    /\ elapsed' = 0
    /\ lroWait' = 0
    /\ lroResult' = LroNoResult
    /\ UNCHANGED <<lroLastBody, lroCtx>>
    /\ LroFrame

LroNext ==
    \/ LroCall
    \/ LroPoll
    \/ LroWaitElapsed
    \/ LroCtxDone
    \/ LroCtxAbort
    \/ LroRetryFailed

\* C10: after the poll responses Running, Running, Succeeded the poller has
\* gone through exactly Created, Running, Running, Succeeded and has returned
\* the final response body; and no poll is ever issued after a Succeeded one.
C10_ScriptedSuccess ==
    /\ seen = <<"Running", "Running", "Succeeded">>
          => /\ phases = <<"Created", "Running", "Running", "Succeeded">>
             /\ lroPc = "done"
             /\ lroResult = [kind |-> "ok", body |-> lroLastBody]
    /\ \A i \in 1..Len(seen) :
          seen[i] = "Succeeded" => (i = Len(seen) /\ lroPc = "done")
    /\ Len(phases) > 0 => phases[1] = "Created"

C10_Witness ==
    /\ seen = <<"Running", "Running", "Succeeded">>
    /\ phases = <<"Created", "Running", "Running", "Succeeded">>
    /\ lroPc = "done"
    /\ lroLastBody = "b2"
    /\ lroResult = [kind |-> "ok", body |-> "b2"]

C14_ConflictIsTransient ==
    (Len(seen) > 0 /\ seen[Len(seen)] = "Conflict")
        => /\ phase \in {"Running", "TimedOut"}
           /\ lroResult.kind \in {"none", "TimeoutError", "ctx"}
           /\ lroPc = "done" => (phase = "TimedOut" \/ lroCtx = "canceled")
           /\ phase = "TimedOut" => (elapsed >= MaxWait \/ lroCtx = "deadline")

C14_Witness ==
    /\ seen = <<"Conflict", "Conflict", "Conflict", "Succeeded">>
    /\ phases = <<"Created", "Running", "Running", "Running", "Succeeded">>
    /\ lroResult.kind = "ok"

\* C15: an operation still in progress when the maximum total wait, or the
\* context's deadline, is reached is TimedOut and returns a TimeoutError; a
\* timeout is never reported as OperationFailedError nor a failure as a
\* TimeoutError, and no poll or wait goes on past the budget.
C15_TimeoutDistinctFromFailure ==
    /\ phase = "TimedOut" <=> lroResult.kind = "TimeoutError"
    /\ phase = "Failed" <=> lroResult.kind = "OperationFailedError"
    /\ lroPc \in {"poll", "wait"} => elapsed < MaxWait
    /\ (lroPc = "done" /\ lroCtx = "deadline") => phase = "TimedOut"
    /\ phase = "TimedOut"
          => /\ lroPc = "done"
             /\ \A i \in 1..Len(seen) : seen[i] \in {"Running", "Conflict"}

C15_Witness ==
    /\ phase = "TimedOut"
    /\ lroCtx = "live"
    /\ elapsed >= MaxWait
    /\ Len(seen) > 0
    /\ seen[Len(seen)] = "Running"
    /\ lroResult.kind = "TimeoutError"

-----------------------------------------------------------------------------
(* WebsiteResource and the Power Pages client *)

\* Plans of the website resource: the configured attributes, the computed id
\* unknown.
WsPlans == {"siteA", "siteB"}

\* The acceptableStatusCodes CreateWebsite passes to Execute.
WsAcceptable == {401, 400, 202, 404}

\* Status codes the Power Pages API answers the POST with.
WsStatuses == {202, 400, 401, 403, 404, 429}

WsNoErr == [kind |-> "nil", body |-> ""]

WsInit ==
    /\ wsPc = "idle"
    /\ wsPlan = "none"
    /\ wsState = "null"
    /\ wsDiag = ""
    /\ wsStatus = 0
    /\ wsBody = ""
    /\ wsSeen = << >>
    /\ wsExecErr = "nil"
    /\ wsErr = WsNoErr
    /\ wsOpPhase = "None"
    /\ wsRemote = {}
    /\ wsRequests = 0
    /\ wsLast = "none"
    /\ wsOps = 0

\* CreateWebsite returning nil for every response Execute hands back.
CreateWebsiteErrAnyAcceptable(execErr, status, body) ==
    IF execErr # "nil" THEN [kind |-> execErr, body |-> body]
    ELSE WsNoErr

\* What CreateWebsite returns for what Execute returned: Execute's error, an
\* error with the response body for any status other than 202, nil for 202.
CreateWebsiteErr(execErr, status, body) ==
    IF execErr # "nil" THEN [kind |-> execErr, body |-> body]
    ELSE IF status # 202 THEN [kind |-> "unexpected status code", body |-> body]
    ELSE WsNoErr

\* A Create that stores the plan whatever CreateWebsite returned.
WsStateAfterCreateAlways(err, plan, prior) == plan

\* The state after Create: the plan, unless CreateWebsite returned an error.
WsStateAfterCreate(err, plan, prior) ==
    IF err # WsNoErr THEN prior ELSE plan

\* WebsiteResource.Create up to the call of Execute in CreateWebsite: the
\* POST of the website is issued.
WsCreate ==
    /\ wsPc = "idle"
    /\ wsState = "null"
    /\ wsOps < MaxWsOps
    /\ \E plan \in WsPlans : wsPlan' = plan
    /\ wsPc' = "createWebsite"
    /\ wsRequests' = wsRequests + 1
    /\ wsDiag' = ""
    /\ wsStatus' = 0
    /\ wsBody' = ""
    /\ wsSeen' = << >>
    /\ wsExecErr' = "nil"
    /\ wsErr' = WsNoErr
    /\ wsOpPhase' = "None"
    /\ UNCHANGED <<wsState, wsRemote, wsLast, wsOps>>
    /\ WsFrame

\* Execute receives a response that is neither acceptable nor final: it
\* waits and sends the POST again.
WsExecuteRetry ==
    /\ wsPc = "createWebsite"
    /\ Len(wsSeen) + 1 < MaxCalls
    /\ \E status \in WsStatuses, body \in Bodies :
          /\ ~isAcceptable(status, WsAcceptable)
          /\ isRetryable(status)
          /\ wsStatus' = status
          /\ wsBody' = body
          /\ wsSeen' = Append(wsSeen, status)
    /\ wsRequests' = wsRequests + 1
    /\ UNCHANGED <<wsPc, wsPlan, wsState, wsDiag, wsExecErr, wsErr, wsOpPhase,
                   wsRemote, wsLast, wsOps>>
    /\ WsFrame

\* Execute returns to CreateWebsite (an acceptable response, or an error for
\* a status that is neither acceptable nor retryable), CreateWebsite to
\* Create, and Create returns: with an error diagnostic, or with the plan
\* stored as state.  A 202 leaves the operation it started in Created:
\* nothing polls it.
WsCreateWebsiteReturns ==
    /\ wsPc = "createWebsite"
    /\ \E status \in WsStatuses, body \in Bodies :
          LET execErr == IF isAcceptable(status, WsAcceptable) THEN "nil"
                         ELSE "UnexpectedHttpStatusCodeError"
              err == CreateWebsiteErr(execErr, status, body)
          IN /\ isAcceptable(status, WsAcceptable) \/ ~isRetryable(status)
             /\ wsStatus' = status
             /\ wsBody' = body
             /\ wsSeen' = Append(wsSeen, status)
             /\ wsExecErr' = execErr
             /\ wsErr' = err
             /\ wsOpPhase' = IF status = 202 THEN "Created" ELSE "None"
             /\ wsRemote' = IF status = 202 THEN wsRemote \cup {wsPlan}
                            ELSE wsRemote
             /\ wsDiag' = IF err # WsNoErr THEN "Failed to create website"
                          ELSE ""
             /\ wsState' = WsStateAfterCreate(err, wsPlan, wsState)
    /\ wsPc' = "idle"
    /\ wsLast' = "Create"
    /\ wsOps' = wsOps + 1
    /\ UNCHANGED <<wsPlan, wsRequests>>
    /\ WsFrame

\* WebsiteResource.Read: the state read is written back.
WsRead ==
    /\ wsPc = "idle"
    /\ wsState # "null"
    /\ wsOps < MaxWsOps
    /\ wsState' = wsState
    /\ wsDiag' = ""
    /\ wsLast' = "Read"
    /\ wsOps' = wsOps + 1
    /\ UNCHANGED <<wsPc, wsPlan, wsStatus, wsBody, wsSeen, wsExecErr, wsErr,
                   wsOpPhase, wsRemote, wsRequests>>
    /\ WsFrame

\* WebsiteResource.Update: the plan is stored as state.
WsUpdate ==
    /\ wsPc = "idle"
    /\ wsState # "null"
    /\ wsOps < MaxWsOps
    /\ \E plan \in WsPlans :
          /\ wsPlan' = plan
          /\ wsState' = plan
    /\ wsDiag' = ""
    /\ wsLast' = "Update"
    /\ wsOps' = wsOps + 1
    /\ UNCHANGED <<wsPc, wsStatus, wsBody, wsSeen, wsExecErr, wsErr, wsOpPhase,
                   wsRemote, wsRequests>>
    /\ WsFrame

\* A Delete that asks the API to delete the website.
WsDeleteCallsApi ==
    /\ wsPc = "idle"
    /\ wsState # "null"
    /\ wsOps < MaxWsOps
    /\ wsState' = "null"
    /\ wsRequests' = wsRequests + 1
    /\ wsRemote' = wsRemote \ {wsState}
    /\ wsDiag' = ""
    /\ wsLast' = "Delete"
    /\ wsOps' = wsOps + 1
    /\ UNCHANGED <<wsPc, wsPlan, wsStatus, wsBody, wsSeen, wsExecErr, wsErr,
                   wsOpPhase>>
    /\ WsFrame

\* WebsiteResource.Delete: the state is read and nothing else is done; the
\* framework drops the state of a Delete that returns no error.
WsDelete ==
    /\ wsPc = "idle"
    /\ wsState # "null"
    /\ wsOps < MaxWsOps
    /\ wsState' = "null"
    /\ wsDiag' = ""
    /\ wsLast' = "Delete"
    /\ wsOps' = wsOps + 1
    /\ UNCHANGED <<wsPc, wsPlan, wsStatus, wsBody, wsSeen, wsExecErr, wsErr,
                   wsOpPhase, wsRemote, wsRequests>>
    /\ WsFrame

WsNext ==
    \/ WsCreate
    \/ WsExecuteRetry
    \/ WsCreateWebsiteReturns
    \/ WsRead
    \/ WsUpdate
    \/ WsDelete

\* C11: when a call answered 202 has returned to its caller, the operation
\* the 202 started is in a terminal phase or TimedOut, never Created or
\* Running.
C11_ReturnsOnlyWhenTerminal ==
    (wsPc = "idle" /\ wsLast = "Create" /\ wsStatus = 202)
        => wsOpPhase \in {"Succeeded", "Failed", "Canceled", "TimedOut"}

\* C22: a Create whose POST was answered 202 ends with no error diagnostic
\* and with exactly the plan as state; a Create whose CreateWebsite returned
\* an error ends with an error diagnostic and no state.
C22_CreateStoresPlanOrDiagnoses ==
    (wsPc = "idle" /\ wsLast = "Create")
        => /\ wsStatus = 202 => (wsDiag = "" /\ wsState = wsPlan)
           /\ wsErr # WsNoErr => (wsDiag # "" /\ wsState = "null")

C22_Witness ==
    /\ wsPc = "idle"
    /\ wsLast = "Create"
    /\ wsStatus = 202
    /\ wsPlan = "siteB"
    /\ wsState = "siteB"
    /\ wsDiag = ""

\* C24: CreateWebsite returns nil exactly when Execute returned no error and
\* the status is 202; for 400, 401 and 404 it returns an 'unexpected status
\* code' error holding the response body; and a 401 is the last response of
\* the call, so a call whose first response is 401 made one HTTP call.
C24_CreateWebsiteStatusHandling ==
    /\ (wsPc = "idle" /\ wsLast = "Create")
          => /\ wsErr = WsNoErr <=> (wsExecErr = "nil" /\ wsStatus = 202)
             /\ wsStatus \in {400, 401, 404}
                   => /\ wsExecErr = "nil"
                      /\ wsErr = [kind |-> "unexpected status code",
                                  body |-> wsBody]
    /\ \A i \in 1..Len(wsSeen) :
          wsSeen[i] = 401 => (i = Len(wsSeen) /\ wsPc = "idle")
    /\ (Len(wsSeen) > 0 /\ wsSeen[1] = 401) => Len(wsSeen) = 1

C24_Witness ==
    /\ wsPc = "idle"
    /\ wsLast = "Create"
    /\ wsSeen = <<401>>
    /\ wsErr = [kind |-> "unexpected status code", body |-> "b2"]
    /\ wsState = "null"

\* C30: a step of Read, Update or Delete sends no request and leaves the
\* remote websites as they are; Read leaves the state as it was and Update
\* makes the plan the state.
C30_ReadUpdateDeleteAreLocal ==
    [][(wsOps' = wsOps + 1 /\ wsLast' \in {"Read", "Update", "Delete"})
          => /\ wsRequests' = wsRequests
             /\ wsRemote' = wsRemote
             /\ wsLast' = "Read" => wsState' = wsState
             /\ wsLast' = "Update" => wsState' = wsPlan']_vars

C30_Witness ==
    /\ wsOps = 4
    /\ wsLast = "Delete"
    /\ wsState = "null"
    /\ wsRemote = {"siteA"}
    /\ wsRequests = 1

-----------------------------------------------------------------------------
(* Credential Provider: Auth.GetTokenForScopes *)

\* The credential methods a configuration can provide.
Methods == {"client_secret", "client_certificate", "oidc", "managed_identity",
            "cli"}

\* The configuration precedence of the methods, highest first.
Precedence == <<"client_secret", "client_certificate", "oidc",
                "managed_identity", "cli">>

Rank(order, m) == CHOOSE i \in 1..Len(order) : order[i] = m

\* The first method of an order that a configuration provides.
FirstOf(order, cfg) ==
    IF cfg = {} THEN "none"
    ELSE CHOOSE m \in cfg : \A o \in cfg : Rank(order, m) <= Rank(order, o)

\* A selection that prefers CLI passthrough to every other method.
SelectMethodCliFirst(cfg) ==
    FirstOf(<<"cli", "client_secret", "client_certificate", "oidc",
              "managed_identity">>, cfg)

\* The method used for a configuration: the one of highest precedence.
SelectMethod(cfg) == FirstOf(Precedence, cfg)

\* Symbols of the base64 alphabet that occur in the model's inputs.
Base64Alphabet == {"Q", "U"}

\* Values of config.ClientCertificateRaw: empty, a well-formed bundle,
\* well-formed base64 of something that is no bundle, base64 with a symbol
\* outside the alphabet, base64 of a wrong length.
CertInputs == { << >>,
                <<"Q", "U", "Q", "U">>,
                <<"U", "U", "Q", "U">>,
                <<"Q", "!", "Q", "U">>,
                <<"Q", "U", "Q">> }

\* base64 decoding: four symbols give three bytes; a symbol outside the
\* alphabet or a length that is no multiple of four is an error.
convertBase64ToByte(b64) ==
    IF \/ \E i \in 1..Len(b64) : b64[i] \notin Base64Alphabet
       \/ Len(b64) % 4 # 0
    THEN [bytes |-> << >>, err |-> "InvalidCredentialError"]
    ELSE [bytes |-> [i \in 1..(3 * (Len(b64) \div 4)) |->
                        b64[i + ((i - 1) \div 3)]],
          err |-> "nil"]

\* Parsing the bundle: bytes that do not start a bundle are an error.
convertByteToCert(pfx) ==
    IF pfx = << >> \/ pfx[1] # "Q"
    THEN [certs |-> "none", key |-> "none", err |-> "InvalidCredentialError"]
    ELSE [certs |-> "leaf", key |-> "privateKey", err |-> "nil"]

\* A conversion that reports no error when the base64 does not decode.
ConvertBase64ToCertDropsDecodeError(b64) ==
    LET pfx == convertBase64ToByte(b64)
        parsed == convertByteToCert(pfx.bytes)
    IN IF pfx.err # "nil"
       THEN [certs |-> "none", key |-> "none", err |-> "nil"]
       ELSE parsed

\* helpers.ConvertBase64ToCert: either error is returned with neither
\* certificates nor key.
ConvertBase64ToCert(b64) ==
    LET pfx == convertBase64ToByte(b64)
    IN IF pfx.err # "nil"
       THEN [certs |-> "none", key |-> "none", err |-> pfx.err]
       ELSE LET parsed == convertByteToCert(pfx.bytes)
            IN IF parsed.err # "nil"
               THEN [certs |-> "none", key |-> "none", err |-> parsed.err]
               ELSE [certs |-> parsed.certs, key |-> parsed.key, err |-> "nil"]

\* Token values the identity provider hands out.
Tokens == {"tokenX", "tokenY"}

\* The debug line with the scopes asked for.
ScopesLogLine(scopes) ==
    [msg |-> "[GetTokenForScope] Getting token for scope", scopes |-> scopes,
     expire |-> 0, token |-> ""]

\* A line about the token acquired that shows the token.
TokenLogLineShowsToken(expiry, tok) ==
    [msg |-> "Token acquired", scopes |-> "", expire |-> expiry, token |-> tok]

\* The debug line about the token acquired: the expiry, and a fixed
\* placeholder where the token would be.
TokenLogLine(expiry, tok) ==
    [msg |-> "Token acquired", scopes |-> "", expire |-> expiry,
     token |-> "**********"]

CrNoCert == [certs |-> "none", key |-> "none", err |-> "unset"]

CrInit ==
    /\ crPc = "configure"
    /\ crConfig = {}
    /\ crCertRaw = << >>
    /\ crScopes = ""
    /\ crMethod = "none"
    /\ crCert = CrNoCert
    /\ crNetCalls = 0
    /\ crExpiry = 0
    /\ crTokenA = ""
    /\ crTokenB = ""
    /\ crErr = "nil"
    /\ crLogA = << >>
    /\ crLogB = << >>

\* The provider is configured: any set of methods, and a certificate text
\* when the certificate method is among them.
CrConfigure ==
    /\ crPc = "configure"
    /\ \E cfg \in SUBSET Methods, raw \in CertInputs :
          /\ "client_certificate" \notin cfg => raw = << >>
          /\ crConfig' = cfg
          /\ crCertRaw' = raw
    /\ crPc' = "call"
    /\ UNCHANGED <<crScopes, crMethod, crCert, crNetCalls, crExpiry, crTokenA,
                   crTokenB, crErr, crLogA, crLogB>>
    /\ CrFrame

\* GetTokenForScopes is entered: the scopes are logged.
CrGetTokenForScopes ==
    /\ crPc = "call"
    /\ \E scopes \in ScopeKeys :
          /\ crScopes' = scopes
          /\ crLogA' = Append(crLogA, ScopesLogLine(scopes))
          /\ crLogB' = Append(crLogB, ScopesLogLine(scopes))
    /\ crPc' = "resolve"
    /\ UNCHANGED <<crConfig, crCertRaw, crMethod, crCert, crNetCalls, crExpiry,
                   crTokenA, crTokenB, crErr>>
    /\ CrFrame

\* The method is selected; no method is a ConfigurationError, and the
\* certificate method converts the certificate before anything is sent.
CrResolve ==
    /\ crPc = "resolve"
    /\ LET m == SelectMethod(crConfig)
           c == ConvertBase64ToCert(crCertRaw)
       IN /\ crMethod' = m
          /\ CASE m = "none" ->
                    /\ crErr' = "ConfigurationError"
                    /\ crPc' = "return"
                    /\ UNCHANGED crCert
               [] m = "client_certificate" ->
                    /\ crCert' = c
                    /\ crErr' = c.err
                    /\ crPc' = IF c.err # "nil" THEN "return" ELSE "provider"
               [] OTHER ->
                    /\ crPc' = "provider"
                    /\ UNCHANGED <<crCert, crErr>>
    /\ UNCHANGED <<crConfig, crCertRaw, crScopes, crNetCalls, crExpiry,
                   crTokenA, crTokenB, crLogA, crLogB>>
    /\ CrFrame

\* The identity provider answers the selected method's request: a token and
\* its expiry (run B gets a token of its own), or a rejection.
CrProviderReturns ==
    /\ crPc = "provider"
    /\ crNetCalls' = crNetCalls + 1
    /\ \/ \E ta \in Tokens, tb \in Tokens, e \in 1..MaxExpiry :
             /\ crTokenA' = ta
             /\ crTokenB' = tb
             /\ crExpiry' = e
             /\ crErr' = "nil"
       \/ /\ crErr' = "AuthenticationError"
          /\ UNCHANGED <<crTokenA, crTokenB, crExpiry>>
    /\ crPc' = "return"
    /\ UNCHANGED <<crConfig, crCertRaw, crScopes, crMethod, crCert, crLogA,
                   crLogB>>
    /\ CrFrame

\* GetTokenForScopes logs the acquisition and returns token and err.
CrReturn ==
    /\ crPc = "return"
    /\ crLogA' = Append(crLogA, TokenLogLine(crExpiry, crTokenA))
    /\ crLogB' = Append(crLogB, TokenLogLine(crExpiry, crTokenB))
    /\ crPc' = "done"
    /\ UNCHANGED <<crConfig, crCertRaw, crScopes, crMethod, crCert, crNetCalls,
                   crExpiry, crTokenA, crTokenB, crErr>>
    /\ CrFrame

CrNext ==
    \/ CrConfigure
    \/ CrGetTokenForScopes
    \/ CrResolve
    \/ CrProviderReturns
    \/ CrReturn

\* C16: once the method is selected it is the configured method of highest
\* precedence: client secret, then client certificate, then OIDC, then
\* managed identity, then CLI passthrough; with no method configured the call
\* ends in a ConfigurationError and nothing was sent to the identity provider.
C16_HighestPrecedenceMethod ==
    crPc \in {"provider", "return", "done"}
        => /\ "client_secret" \in crConfig => crMethod = "client_secret"
           /\ ("client_certificate" \in crConfig
                 /\ "client_secret" \notin crConfig)
                 => crMethod = "client_certificate"
           /\ ("oidc" \in crConfig
                 /\ crConfig \cap {"client_secret", "client_certificate"} = {})
                 => crMethod = "oidc"
           /\ ("managed_identity" \in crConfig
                 /\ crConfig \cap {"client_secret", "client_certificate",
                                   "oidc"} = {})
                 => crMethod = "managed_identity"
           /\ crConfig = {"cli"} => crMethod = "cli"
           /\ crConfig = {}
                 => /\ crMethod = "none"
                    /\ crPc \in {"return", "done"}
                    /\ crErr = "ConfigurationError"
                    /\ crNetCalls = 0

C16_Witness ==
    /\ crPc = "done"
    /\ crConfig = {"oidc", "managed_identity", "cli"}
    /\ crMethod = "oidc"
    /\ crNetCalls = 1
    /\ crErr = "nil"

\* C19: a certificate text that is no well-formed base64 makes
\* ConvertBase64ToCert return an InvalidCredentialError with neither
\* certificate nor key, and nothing is sent; and it never returns a
\* certificate or a key together with an error, nor a nil error without both.
C19_CorruptBase64IsInvalidCredential ==
    (crPc \in {"provider", "return", "done"}
       /\ crMethod = "client_certificate")
        => /\ (\/ \E i \in 1..Len(crCertRaw) : crCertRaw[i] \notin {"Q", "U"}
               \/ Len(crCertRaw) % 4 # 0)
                 => /\ crCert = [certs |-> "none", key |-> "none",
                                 err |-> "InvalidCredentialError"]
                    /\ crErr = "InvalidCredentialError"
                    /\ crNetCalls = 0
           /\ crCert.err = "nil"
                 <=> (crCert.certs # "none" /\ crCert.key # "none")
           /\ crCert.err # "nil"
                 => (crCert.certs = "none" /\ crCert.key = "none")

C19_Witness ==
    /\ crPc = "done"
    /\ crMethod = "client_certificate"
    /\ crCertRaw = <<"Q", "!", "Q", "U">>
    /\ crCert.err = "InvalidCredentialError"
    /\ crErr = "InvalidCredentialError"

-----------------------------------------------------------------------------
(* REST client: SendOperation and ExecuteApiRequest *)

\* operation.Url as the user wrote it: absolute https, absolute http, or a
\* path without scheme and host.
RestUrls == { [scheme |-> "https", host |-> "org.crm.dynamics.com"],
              [scheme |-> "http", host |-> "org.crm.dynamics.com"],
              [scheme |-> "", host |-> ""] }

\* The scope handed to ExecuteApiRequest: none, or a scope.
RestScopes == {"nil"} \cup ScopeKeys

RsInit ==
    /\ rsPc = "idle"
    /\ rsScope = "nil"
    /\ rsUrl = [scheme |-> "", host |-> ""]
    /\ rsSent = {}
    /\ rsOutcome = "none"
    /\ rsOps = 0

\* SendOperation takes url, method and body from the operation as they are
\* and calls ExecuteApiRequest.
RsSendOperation ==
    /\ rsPc = "idle"
    /\ rsOps < MaxRestOps
    /\ \E u \in RestUrls, sc \in RestScopes :
          /\ rsUrl' = u
          /\ rsScope' = sc
    /\ rsPc' = "apiRequest"
    /\ rsOutcome' = "none"
    /\ UNCHANGED <<rsSent, rsOps>>
    /\ RsFrame

\* ExecuteApiRequest: with a scope the request goes to Execute with the url
\* as given; without one the function panics.
RsExecuteApiRequest ==
    /\ rsPc = "apiRequest"
    /\ IF rsScope # "nil"
       THEN /\ rsSent' = rsSent \cup {rsUrl}
            /\ rsPc' = "inflight"
            /\ UNCHANGED rsOutcome
       ELSE /\ rsOutcome' = "panic"
            /\ rsPc' = "panicked"
            /\ UNCHANGED rsSent
    /\ UNCHANGED <<rsScope, rsUrl, rsOps>>
    /\ RsFrame

\* Execute returns a response or an error, which ExecuteApiRequest returns.
RsExecuteReturns ==
    /\ rsPc = "inflight"
    /\ rsOutcome' \in {"ok", "error"}
    /\ rsPc' = "idle"
    /\ rsOps' = rsOps + 1
    /\ UNCHANGED <<rsScope, rsUrl, rsSent>>
    /\ RsFrame

RsNext ==
    \/ RsSendOperation
    \/ RsExecuteApiRequest
    \/ RsExecuteReturns

\* C17: every HTTP request sent has an absolute https URL.
C17_OnlyHttpsSent ==
    \A u \in rsSent : u.scheme = "https" /\ u.host # ""

\* C18: ExecuteApiRequest called without a scope returns an error and never
\* panics.
C18_NilScopeReturnsError ==
    /\ rsOutcome # "panic"
    /\ (rsScope = "nil" /\ rsPc \notin {"idle", "apiRequest"})
          => rsOutcome = "error"

-----------------------------------------------------------------------------
(* EnvironmentApplicationPackageInstallResource *)

\* Unique names of application packages.
AiApps == {"appA", "appB"}

AiInit ==
    /\ aiPc = "idle"
    /\ aiPlan = "none"
    /\ aiState = "null"
    /\ aiInstalled = {}
    /\ aiRequests = 0
    /\ aiDiag = ""
    /\ aiLast = "none"
    /\ aiOps = 0

\* Create up to its first call: DataverseExists is asked.
AiCreate ==
    /\ aiPc = "idle"
    /\ aiState = "null"
    /\ aiOps < MaxAiOps
    /\ \E app \in AiApps : aiPlan' = app
    /\ aiPc' = "dataverseExists"
    /\ aiRequests' = aiRequests + 1
    /\ aiDiag' = ""
    /\ UNCHANGED <<aiState, aiInstalled, aiLast, aiOps>>
    /\ AiFrame

\* DataverseExists returns: an error or no Dataverse ends Create with an
\* error diagnostic; otherwise InstallApplicationInEnvironment is called.
AiDataverseExistsReturns ==
    /\ aiPc = "dataverseExists"
    /\ \E dvExits \in BOOLEAN, failed \in BOOLEAN :
          /\ failed => ~dvExits
          /\ IF dvExits
             THEN /\ aiPc' = "install"
                  /\ aiRequests' = aiRequests + 1
                  /\ UNCHANGED <<aiDiag, aiLast, aiOps>>
             ELSE /\ aiPc' = "idle"
                  /\ aiDiag' = IF failed
                               THEN "Client error when checking if Dataverse exists"
                               ELSE "No Dataverse exists in environment"
                  /\ aiLast' = "Create"
                  /\ aiOps' = aiOps + 1
                  /\ UNCHANGED aiRequests
    /\ UNCHANGED <<aiPlan, aiState, aiInstalled>>
    /\ AiFrame

\* InstallApplicationInEnvironment returns and Create ends: the application
\* is installed and the plan stored, or an error diagnostic is added.
AiInstallReturns ==
    /\ aiPc = "install"
    /\ \/ /\ aiInstalled' = aiInstalled \cup {aiPlan}
          /\ aiState' = aiPlan
          /\ aiDiag' = ""
       \/ /\ aiDiag' = "Client error when installing application"
          /\ UNCHANGED <<aiInstalled, aiState>>
    /\ aiPc' = "idle"
    /\ aiLast' = "Create"
    /\ aiOps' = aiOps + 1
    /\ UNCHANGED <<aiPlan, aiRequests>>
    /\ AiFrame

\* Update: the plan becomes the state; no application is updated.
AiUpdate ==
    /\ aiPc = "idle"
    /\ aiState # "null"
    /\ aiOps < MaxAiOps
    /\ \E app \in AiApps :
          /\ aiPlan' = app
          /\ aiState' = app
    /\ aiDiag' = ""
    /\ aiLast' = "Update"
    /\ aiOps' = aiOps + 1
    /\ UNCHANGED <<aiPc, aiInstalled, aiRequests>>
    /\ AiFrame

\* A Delete that uninstalls the application of the state.
AiDeleteUninstalls ==
    /\ aiPc = "idle"
    /\ aiState # "null"
    /\ aiOps < MaxAiOps
    /\ aiState' = "null"
    /\ aiInstalled' = aiInstalled \ {aiState}
    /\ aiRequests' = aiRequests + 1
    /\ aiDiag' = ""
    /\ aiLast' = "Delete"
    /\ aiOps' = aiOps + 1
    /\ UNCHANGED <<aiPc, aiPlan>>
    /\ AiFrame

\* Delete: no application is uninstalled; the framework drops the state.
AiDelete ==
    /\ aiPc = "idle"
    /\ aiState # "null"
    /\ aiOps < MaxAiOps
    /\ aiState' = "null"
    /\ aiDiag' = ""
    /\ aiLast' = "Delete"
    /\ aiOps' = aiOps + 1
    /\ UNCHANGED <<aiPc, aiPlan, aiInstalled, aiRequests>>
    /\ AiFrame

AiNext ==
    \/ AiCreate
    \/ AiDataverseExistsReturns
    \/ AiInstallReturns
    \/ AiUpdate
    \/ AiDelete

\* C21: no step uninstalls an application, and a step of Update or Delete
\* issues no API request and leaves the installed applications as they are.
C21_UpdateDeleteAreNoOps ==
    [][/\ aiInstalled \subseteq aiInstalled'
       /\ (aiOps' = aiOps + 1 /\ aiLast' \in {"Update", "Delete"})
             => (aiRequests' = aiRequests /\ aiInstalled' = aiInstalled)]_vars

C21_Witness ==
    /\ aiOps = 3
    /\ aiLast = "Delete"
    /\ aiState = "null"
    /\ aiInstalled = {"appA"}
    /\ aiRequests = 2

-----------------------------------------------------------------------------
(* ApplicationUserResource and the ApplicationUserClient *)

\* Security role ids.
ArRoles == {"r1", "r2"}

\* The order a GET of the user lists its roles in.
ArRoleOrder == <<"r1", "r2">>

\* security_roles of a plan: role ids, none twice.
ArRoleLists ==
    {l \in UNION {[1..n -> ArRoles] : n \in 0..MaxRoles} :
        \A i, j \in 1..Len(l) : l[i] = l[j] => i = j}

\* Plans of the resource: security_roles and disable_delete.
ArPlans == [roles : ArRoleLists, dd : BOOLEAN]

ArNoPlan == [roles |-> << >>, dd |-> FALSE]

NilDto == [nil |-> TRUE, roles |-> {}]

ArNoState == [present |-> FALSE, roles |-> << >>, dd |-> FALSE, dto |-> NilDto]

\* A request: method, what it addresses, and the role for a role request.
Req(m, what, role) == [m |-> m, what |-> what, role |-> role]

\* SecurityRolesArray(): the role ids of a DTO as a list.
SecurityRolesArray(roles) ==
    LET In(r) == r \in roles
    IN SelectSeq(ArRoleOrder, In)

\* helpers.DiffArrays(plan, state): the ids only the plan has, and the ids
\* only the state has.
DiffArrays(plan, state) ==
    LET InState(r) == \E i \in 1..Len(state) : state[i] = r
        InPlan(r) == \E i \in 1..Len(plan) : plan[i] = r
        OnlyPlan(r) == ~InState(r)
        OnlyState(r) == ~InPlan(r)
    IN [added |-> SelectSeq(plan, OnlyPlan),
        removed |-> SelectSeq(state, OnlyState)]

ArInit ==
    /\ arPc = "idle"
    /\ arHandler = "none"
    /\ arCall = "none"
    /\ arArgs = << >>
    /\ arQueue = << >>
    /\ arRetryCount = RetryCountInit
    /\ arPlan = ArNoPlan
    /\ arPrior = ArNoState
    /\ arState = ArNoState
    /\ arDto = NilDto
    /\ arDtoAt = 0
    /\ arErr = "nil"
    /\ arDiag = ""
    /\ arWrote = FALSE
    /\ arLog = << >>
    /\ arCallStart = 0
    /\ arCalls = << >>
    /\ arMutFailed = FALSE
    /\ arRemote = [user |-> FALSE, roles |-> {}]
    /\ arRemoteAtStart = [user |-> FALSE, roles |-> {}]
    /\ arOps = 0

\* Where a client function starts: CreateApplicationUser with its POST, the
\* GET of the user with the lookup of the environment URL before it, the
\* others with the lookup of the environment URL.
FirstStep(fn) ==
    CASE fn = "CreateApplicationUser" -> "mutate"
      [] fn = "GetApplicationUser" -> "envForGet"
      [] OTHER -> "env"

\* A client function is called.
StartCall(fn, args, at) ==
    /\ arCall' = fn
    /\ arArgs' = args
    /\ arQueue' = args
    /\ arRetryCount' = RetryCountInit
    /\ arCallStart' = at
    /\ arMutFailed' = FALSE
    /\ arPc' = FirstStep(fn)

\* The client function returns dto and err to the handler.
Returned(err, dto) ==
    /\ arErr' = err
    /\ arDto' = dto
    /\ arDtoAt' = IF dto.nil THEN 0 ELSE Len(arLog) + 1
    /\ arCalls' = Append(arCalls, [fn |-> arCall, err |-> err])
    /\ arPc' = "ret"

\* The client function goes on with its next step.
Proceed(step) ==
    /\ arPc' = step
    /\ UNCHANGED <<arErr, arDto, arDtoAt, arCalls>>

\* A handler is entered: it reads plan and state.
BeginHandler(h, plan) ==
    /\ arHandler' = h
    /\ arPlan' = plan
    /\ arPrior' = arState
    /\ arDiag' = ""
    /\ arWrote' = FALSE
    /\ arLog' = << >>
    /\ arCalls' = << >>
    /\ arDto' = NilDto
    /\ arDtoAt' = 0
    /\ arErr' = "nil"
    /\ arRemoteAtStart' = arRemote

\* A Delete that calls DeleteApplicationUser whatever disable_delete is.
DeleteCallsApiAlways(dd) == TRUE

\* if state.DisableDelete.ValueBool() { DeleteApplicationUser(...) }
DeleteCallsApi(dd) == dd

\* A client function that goes on to the GET of the user after a mutating
\* request that failed.
StepAfterMutationAlwaysGets(ok) == "envForGet"

\* After the mutating request of Create/UpdateApplicationUser: an error
\* returns, success goes on to the GET of the user.
StepAfterMutation(ok) == IF ok THEN "envForGet" ELSE "ret"

\* A role loop that goes on after a request that failed.
StepAfterRoleRequestSkipsFailure(ok, rest) ==
    IF rest = << >> THEN "envForGet" ELSE "mutate"

\* After one request of the role loop: an error returns, otherwise the next
\* role follows, and after the last role the GET of the user.
StepAfterRoleRequest(ok, rest) ==
    IF ~ok THEN "ret"
    ELSE IF rest = << >> THEN "envForGet" ELSE "mutate"

\* An Update that removes roles before it adds roles.
NextCallRemoveFirst(h, fn, err, added, removed) ==
    IF err # "nil" THEN "none"
    ELSE CASE h = "Create" /\ fn = "CreateApplicationUser" -> "AddSecurityRoles"
           [] h = "Update" /\ fn = "GetApplicationUser" ->
                IF removed # << >> THEN "RemoveSecurityRoles"
                ELSE IF added # << >> THEN "AddSecurityRoles" ELSE "none"
           [] h = "Update" /\ fn = "RemoveSecurityRoles" ->
                IF added # << >> THEN "AddSecurityRoles" ELSE "none"
           [] OTHER -> "none"

\* The client function a handler calls after the one that returned ("none":
\* the handler returns).
NextCall(h, fn, err, added, removed) ==
    IF err # "nil" THEN "none"
    ELSE CASE h = "Create" /\ fn = "CreateApplicationUser" -> "AddSecurityRoles"
           [] h = "Update" /\ fn = "GetApplicationUser" ->
                IF added # << >> THEN "AddSecurityRoles"
                ELSE IF removed # << >> THEN "RemoveSecurityRoles" ELSE "none"
           [] h = "Update" /\ fn = "AddSecurityRoles" ->
                IF removed # << >> THEN "RemoveSecurityRoles" ELSE "none"
           [] OTHER -> "none"

\* The securityRolesIds a handler passes to Add/RemoveSecurityRoles.
NextArgs(h, fn, plan, added, removed) ==
    IF h = "Create" THEN plan
    ELSE IF fn = "AddSecurityRoles" THEN added ELSE removed

\* A handler that calls State.Set whatever its last client call returned.
WritesStateIgnoringErr(h, err) == h \in {"Create", "Read", "Update"}

\* The handler calls State.Set: Create, Read and Update do when no client
\* call returned an error.
WritesState(h, err) == h \in {"Create", "Read", "Update"} /\ err = "nil"

\* The state a handler stores: Read takes the roles from the DTO; Create and
\* Update store the plan with id, name and business unit from the DTO.
StateWritten(h, plan, prior, dto) ==
    [present |-> TRUE,
     roles |-> IF h = "Read" THEN SecurityRolesArray(dto.roles) ELSE plan.roles,
     dd |-> IF h = "Read" THEN prior.dd ELSE plan.dd,
     dto |-> dto]

\* ApplicationUserResource.Create: CreateApplicationUser comes first.
ArCreate ==
    /\ arPc = "idle"
    /\ arOps < MaxArOps
    /\ ~arState.present
    /\ \E plan \in ArPlans : BeginHandler("Create", plan)
    /\ StartCall("CreateApplicationUser", << >>, 0)
    /\ UNCHANGED <<arState, arRemote, arOps>>
    /\ ArFrame

\* ApplicationUserResource.Read: one GET of the user.
ArRead ==
    /\ arPc = "idle"
    /\ arOps < MaxArOps
    /\ arState.present
    /\ BeginHandler("Read", ArNoPlan)
    /\ StartCall("GetApplicationUser", << >>, 0)
    /\ UNCHANGED <<arState, arRemote, arOps>>
    /\ ArFrame

\* ApplicationUserResource.Update: DiffArrays, then the GET of the user.
ArUpdate ==
    /\ arPc = "idle"
    /\ arOps < MaxArOps
    /\ arState.present
    /\ \E plan \in ArPlans : BeginHandler("Update", plan)
    /\ StartCall("GetApplicationUser", << >>, 0)
    /\ UNCHANGED <<arState, arRemote, arOps>>
    /\ ArFrame

\* ApplicationUserResource.Delete: DeleteApplicationUser when disable_delete
\* is true, a debug line and nothing else when it is false.
ArDelete ==
    /\ arPc = "idle"
    /\ arOps < MaxArOps
    /\ arState.present
    /\ BeginHandler("Delete", ArNoPlan)
    /\ IF DeleteCallsApi(arState.dd)
       THEN /\ StartCall("DeleteApplicationUser", << >>, 0)
            /\ UNCHANGED <<arState, arOps>>
       ELSE /\ arPc' = "idle"
            /\ arState' = ArNoState
            /\ arOps' = arOps + 1
            /\ arCall' = "none"
            /\ arArgs' = << >>
            /\ arQueue' = << >>
            /\ arCallStart' = 0
            /\ arMutFailed' = FALSE
            /\ UNCHANGED arRetryCount
    /\ UNCHANGED arRemote
    /\ ArFrame

\* ApplicationUserClient.UpdateApplicationUser called on its own.
ArUpdateApplicationUser ==
    /\ arPc = "idle"
    /\ arOps < MaxArOps
    /\ BeginHandler("Client", ArNoPlan)
    /\ StartCall("UpdateApplicationUser", << >>, 0)
    /\ UNCHANGED <<arState, arRemote, arOps>>
    /\ ArFrame

\* GetEnvironmentUrlById: the GET of the environment each client function
\* other than CreateApplicationUser starts with; its error is returned.
ArGetEnvironment ==
    /\ arPc \in {"env", "envForGet"}
    /\ arLog' = Append(arLog, Req("GET", "environment", ""))
    /\ \E ok \in BOOLEAN :
         IF ~ok THEN Returned("error", NilDto)
         ELSE IF arPc = "envForGet" THEN Proceed("get")
         ELSE IF arCall \in {"AddSecurityRoles", "RemoveSecurityRoles"}
                 /\ arQueue = << >>
              THEN Proceed("envForGet")
         ELSE Proceed("mutate")
    /\ UNCHANGED <<arHandler, arCall, arArgs, arQueue, arRetryCount, arPlan,
                   arPrior, arState, arDiag, arWrote, arCallStart, arMutFailed,
                   arRemote, arRemoteAtStart, arOps>>
    /\ ArFrame

\* CreateApplicationUser: one iteration of the retry loop, POST addUser.
ArPostAddUser ==
    /\ arPc = "mutate"
    /\ arCall = "CreateApplicationUser"
    /\ arLog' = Append(arLog, Req("POST", "addUser", ""))
    /\ \E err \in ExecuteErrors :
         IF LeavesRetryLoop(err) \/ arRetryCount - 1 <= 0
         THEN /\ arRetryCount' =
                   IF LeavesRetryLoop(err) THEN arRetryCount
                   ELSE arRetryCount - 1
              /\ arMutFailed' = (err # "nil")
              /\ arRemote' = IF err = "nil"
                             THEN [arRemote EXCEPT !.user = TRUE]
                             ELSE arRemote
              /\ IF StepAfterMutation(err = "nil") = "ret"
                 THEN Returned(err, NilDto)
                 ELSE Proceed(StepAfterMutation(err = "nil"))
         ELSE /\ arRetryCount' = arRetryCount - 1
              /\ Proceed("mutate")
              /\ UNCHANGED <<arMutFailed, arRemote>>
    /\ UNCHANGED <<arHandler, arCall, arArgs, arQueue, arPlan, arPrior,
                   arState, arDiag, arWrote, arCallStart, arRemoteAtStart,
                   arOps>>
    /\ ArFrame

\* UpdateApplicationUser: PATCH systemusers(id).
ArPatchUser ==
    /\ arPc = "mutate"
    /\ arCall = "UpdateApplicationUser"
    /\ arLog' = Append(arLog, Req("PATCH", "user", ""))
    /\ \E ok \in BOOLEAN :
         /\ arMutFailed' = ~ok
         /\ IF StepAfterMutation(ok) = "ret"
            THEN Returned("error", NilDto)
            ELSE Proceed(StepAfterMutation(ok))
    /\ UNCHANGED <<arHandler, arCall, arArgs, arQueue, arRetryCount, arPlan,
                   arPrior, arState, arDiag, arWrote, arCallStart, arRemote,
                   arRemoteAtStart, arOps>>
    /\ ArFrame

\* DeleteApplicationUser: DELETE systemusers(id); only an error is returned.
ArDeleteUser ==
    /\ arPc = "mutate"
    /\ arCall = "DeleteApplicationUser"
    /\ arLog' = Append(arLog, Req("DELETE", "user", ""))
    /\ \E ok \in BOOLEAN :
         /\ arMutFailed' = ~ok
         /\ arRemote' = IF ok THEN [user |-> FALSE, roles |-> {}] ELSE arRemote
         /\ Returned(IF ok THEN "nil" ELSE "error", NilDto)
    /\ UNCHANGED <<arHandler, arCall, arArgs, arQueue, arRetryCount, arPlan,
                   arPrior, arState, arDiag, arWrote, arCallStart,
                   arRemoteAtStart, arOps>>
    /\ ArFrame

\* AddSecurityRoles: the POST for the next role id of the list.
ArPostRole ==
    /\ arPc = "mutate"
    /\ arCall = "AddSecurityRoles"
    /\ arQueue # << >>
    /\ arLog' = Append(arLog, Req("POST", "role", Head(arQueue)))
    /\ arQueue' = Tail(arQueue)
    /\ \E ok \in BOOLEAN :
         /\ arMutFailed' = (arMutFailed \/ ~ok)
         /\ arRemote' = IF ok
                        THEN [arRemote EXCEPT !.roles = @ \cup {Head(arQueue)}]
                        ELSE arRemote
         /\ IF StepAfterRoleRequest(ok, Tail(arQueue)) = "ret"
            THEN Returned("error", NilDto)
            ELSE Proceed(StepAfterRoleRequest(ok, Tail(arQueue)))
    /\ UNCHANGED <<arHandler, arCall, arArgs, arRetryCount, arPlan, arPrior,
                   arState, arDiag, arWrote, arCallStart, arRemoteAtStart,
                   arOps>>
    /\ ArFrame

\* RemoveSecurityRoles: the DELETE for the next role id of the list.
ArDeleteRole ==
    /\ arPc = "mutate"
    /\ arCall = "RemoveSecurityRoles"
    /\ arQueue # << >>
    /\ arLog' = Append(arLog, Req("DELETE", "role", Head(arQueue)))
    /\ arQueue' = Tail(arQueue)
    /\ \E ok \in BOOLEAN :
         /\ arMutFailed' = (arMutFailed \/ ~ok)
         /\ arRemote' = IF ok
                        THEN [arRemote EXCEPT !.roles = @ \ {Head(arQueue)}]
                        ELSE arRemote
         /\ IF StepAfterRoleRequest(ok, Tail(arQueue)) = "ret"
            THEN Returned("error", NilDto)
            ELSE Proceed(StepAfterRoleRequest(ok, Tail(arQueue)))
    /\ UNCHANGED <<arHandler, arCall, arArgs, arRetryCount, arPlan, arPrior,
                   arState, arDiag, arWrote, arCallStart, arRemoteAtStart,
                   arOps>>
    /\ ArFrame

\* GetApplicationUserBySystemApplicationUserId: the GET of the user with its
\* roles; the DTO holds what the service has at that moment.
ArGetUser ==
    /\ arPc = "get"
    /\ arLog' = Append(arLog, Req("GET", "user", ""))
    /\ \E ok \in (IF arRemote.user THEN BOOLEAN ELSE {FALSE}) :
         IF ok
         THEN Returned("nil", [nil |-> FALSE, roles |-> arRemote.roles])
         ELSE Returned("error", NilDto)
    /\ UNCHANGED <<arHandler, arCall, arArgs, arQueue, arRetryCount, arPlan,
                   arPrior, arState, arDiag, arWrote, arCallStart, arMutFailed,
                   arRemote, arRemoteAtStart, arOps>>
    /\ ArFrame

\* The handler goes on with its next client call.
ArContinue ==
    /\ arPc = "ret"
    /\ LET d == DiffArrays(arPlan.roles, arPrior.roles)
           fn == NextCall(arHandler, arCall, arErr, d.added, d.removed)
       IN /\ fn # "none"
          /\ StartCall(fn, NextArgs(arHandler, fn, arPlan.roles, d.added,
                                    d.removed), Len(arLog))
    /\ UNCHANGED <<arHandler, arPlan, arPrior, arState, arDto, arDtoAt, arErr, arDiag,
                   arWrote, arLog, arCalls, arRemote, arRemoteAtStart, arOps>>
    /\ ArFrame

\* The handler returns: an error diagnostic for a client error, State.Set
\* otherwise; a Delete without error drops the resource from the state.
ArReturn ==
    /\ arPc = "ret"
    /\ LET d == DiffArrays(arPlan.roles, arPrior.roles)
       IN NextCall(arHandler, arCall, arErr, d.added, d.removed) = "none"
    /\ arPc' = "idle"
    /\ arOps' = arOps + 1
    /\ arDiag' = IF arErr # "nil" /\ arHandler # "Client" THEN "Client error"
                 ELSE ""
    /\ arWrote' = WritesState(arHandler, arErr)
    /\ arState' =
         IF WritesState(arHandler, arErr)
         THEN StateWritten(arHandler, arPlan, arPrior, arDto)
         ELSE IF arHandler = "Delete" /\ arErr = "nil" THEN ArNoState
         ELSE arState
    /\ UNCHANGED <<arHandler, arCall, arArgs, arQueue, arRetryCount, arPlan,
                   arPrior, arDto, arDtoAt, arErr, arLog, arCallStart, arCalls,
                   arMutFailed, arRemote, arRemoteAtStart>>
    /\ ArFrame

ArNext ==
    \/ ArCreate
    \/ ArRead
    \/ ArUpdate
    \/ ArDelete
    \/ ArUpdateApplicationUser
    \/ ArGetEnvironment
    \/ ArPostAddUser
    \/ ArPatchUser
    \/ ArDeleteUser
    \/ ArPostRole
    \/ ArDeleteRole
    \/ ArGetUser
    \/ ArContinue
    \/ ArReturn

\* ---- Claims about ApplicationUserResource ----

\* A handler has returned.
ArDone(h) == arPc = "idle" /\ arHandler = h

\* A request with this method for this target is in the log of the handler.
ArSent(m, what) == \E i \in 1..Len(arLog) : arLog[i].m = m /\ arLog[i].what = what

\* C25 as stated: Delete sends DELETE systemusers if and only if the state's
\* disable_delete is true; with disable_delete false it sends no request,
\* adds no error and leaves the remote user unchanged.  Violated: with
\* disable_delete true and a failing lookup of the environment URL,
\* DeleteApplicationUser returns before the DELETE.
C25_DeleteSentIffDisableDelete ==
    ArDone("Delete") =>
        /\ ArSent("DELETE", "user") <=> arPrior.dd
        /\ ~arPrior.dd =>
              arLog = << >> /\ arDiag = "" /\ arRemote = arRemoteAtStart

\* C25 amended: Delete sends DELETE systemusers only if the state's
\* disable_delete is true; with disable_delete true it sends it unless the
\* lookup of the environment URL failed, and then the only request is that
\* lookup, an error is added and the remote user is unchanged; with
\* disable_delete false it sends no request, adds no error and leaves the
\* remote user unchanged.
C25_DeleteSentOnlyWhenDisableDelete ==
    ArDone("Delete") =>
        /\ ArSent("DELETE", "user") => arPrior.dd
        /\ arPrior.dd /\ ~ArSent("DELETE", "user") =>
              /\ arLog = <<Req("GET", "environment", "")>>
              /\ arDiag # ""
              /\ arRemote = arRemoteAtStart
        /\ ~arPrior.dd =>
              arLog = << >> /\ arDiag = "" /\ arRemote = arRemoteAtStart

\* A Delete with disable_delete false returned and the remote user is there.
C25_Witness ==
    /\ ArDone("Delete")
    /\ ~arPrior.dd
    /\ arPrior.present
    /\ arRemote.user
    /\ ~arState.present

\* C26: Create writes state if and only if CreateApplicationUser and the
\* AddSecurityRoles after it both returned no error; when the user was
\* created and AddSecurityRoles failed, an error diagnostic is added, no
\* state is written and no DELETE of the created user is sent.
C26_CreateWritesStateIffBothSucceed ==
    ArDone("Create") =>
        /\ arWrote <=>
              /\ Len(arCalls) = 2
              /\ arCalls[1] = [fn |-> "CreateApplicationUser", err |-> "nil"]
              /\ arCalls[2] = [fn |-> "AddSecurityRoles", err |-> "nil"]
        /\ arWrote => arState.present /\ arDiag = ""
        /\ ~arWrote => arState = arPrior /\ arDiag # ""
        /\ Len(arCalls) = 2 /\ arCalls[2].err # "nil" =>
              /\ arCalls[1] = [fn |-> "CreateApplicationUser", err |-> "nil"]
              /\ arDiag # ""
              /\ ~arWrote
              /\ ~arState.present
              /\ arRemote.user
              /\ ~ArSent("DELETE", "user")

\* Create returned after the user was created and the POST of a role failed.
C26_Witness ==
    /\ ArDone("Create")
    /\ Len(arCalls) = 2
    /\ arCalls[2] = [fn |-> "AddSecurityRoles", err |-> "error"]
    /\ arMutFailed
    /\ arRemote.user
    /\ ~arState.present

\* The requests for roles with this method, in the order they were sent.
ArRoleRequests(m) ==
    LET Is(q) == q.m = m /\ q.what = "role"
    IN SelectSeq(arLog, Is)

\* One request with this method for each role id of the list, in its order.
ArRequestsFor(m, roles) == [i \in 1..Len(roles) |-> Req(m, "role", roles[i])]

\* s is the beginning of t.
ArIsPrefix(s, t) == Len(s) <= Len(t) /\ \A i \in 1..Len(s) : s[i] = t[i]

ArCallLog == SubSeq(arLog, arCallStart + 1, Len(arLog))

\* C28: AddSecurityRoles and RemoveSecurityRoles send one request per role
\* id, in list order, and stop at the first that fails: when the k-th
\* fails, exactly k role requests were sent, it is the last request of the
\* call (no later role, no final GET), roles 1..k-1 stay applied, and the
\* result is (nil, error).
C28_RoleLoopStopsAtFirstFailure ==
    arCall \in {"AddSecurityRoles", "RemoveSecurityRoles"} =>
        LET m == IF arCall = "AddSecurityRoles" THEN "POST" ELSE "DELETE"
            IsRole(q) == q.what = "role"
            reqs == SelectSeq(ArCallLog, IsRole)
            k == Len(reqs)
        IN /\ ArIsPrefix(reqs, ArRequestsFor(m, arArgs))
           /\ arMutFailed =>
                 /\ arPc \in {"ret", "idle"}
                 /\ k >= 1
                 /\ ArCallLog[Len(ArCallLog)] = Req(m, "role", arArgs[k])
                 /\ \A i \in 1..Len(ArCallLog) :
                       ArCallLog[i] # Req("GET", "user", "")
                 /\ \A i \in 1..(k - 1) :
                       (arArgs[i] \in arRemote.roles) <=> (m = "POST")
                 /\ arErr = "error"
                 /\ arDto = NilDto
                 /\ arCalls[Len(arCalls)] = [fn |-> arCall, err |-> "error"]

\* AddSecurityRoles returned after its second request failed.
C28_Witness ==
    /\ arCall = "AddSecurityRoles"
    /\ arPc = "ret"
    /\ arMutFailed
    /\ Len(arArgs) = 2
    /\ Len(ArCallLog) = 3
    /\ arArgs[1] \in arRemote.roles
    /\ arArgs[2] \notin arRemote.roles

\* A request that changes the user or its roles.
ArIsMutation(q) == q.m \in {"POST", "PATCH", "DELETE"}

\* C29: CreateApplicationUser, UpdateApplicationUser, AddSecurityRoles and
\* RemoveSecurityRoles return the DTO of a GET of the user that was sent
\* after the last mutating request of the call, and that request succeeded;
\* when the mutating request ends in error the call sends no GET of the
\* user and returns a nil DTO.
C29_DtoComesFromGetAfterMutation ==
    arCall \in {"CreateApplicationUser", "UpdateApplicationUser",
                "AddSecurityRoles", "RemoveSecurityRoles"} =>
        /\ \A i, j \in 1..Len(ArCallLog) :
              ArCallLog[i] = Req("GET", "user", "") /\ ArIsMutation(ArCallLog[j])
              => j < i
        /\ arCall \in {"CreateApplicationUser", "UpdateApplicationUser"} =>
              \A i \in 1..Len(ArCallLog) :
                 ArCallLog[i] = Req("GET", "user", "") =>
                    \E j \in 1..(i - 1) : ArIsMutation(ArCallLog[j])
        /\ arPc \in {"ret", "idle"} /\ ~arDto.nil =>
              /\ arErr = "nil"
              /\ ~arMutFailed
              /\ arDtoAt = Len(arLog)
              /\ arDtoAt > arCallStart
              /\ arLog[arDtoAt] = Req("GET", "user", "")
              /\ arDto.roles = arRemote.roles
        /\ arMutFailed =>
              /\ arPc \in {"ret", "idle"}
              /\ arDto = NilDto
              /\ arErr # "nil"
              /\ ArIsMutation(ArCallLog[Len(ArCallLog)])
              /\ \A i \in 1..Len(ArCallLog) :
                    ArCallLog[i] # Req("GET", "user", "")

\* UpdateApplicationUser returned the DTO of the GET after its PATCH.
C29_Witness ==
    /\ arCall = "UpdateApplicationUser"
    /\ arPc = "ret"
    /\ ~arDto.nil
    /\ ArCallLog = <<Req("GET", "environment", ""), Req("PATCH", "user", ""),
                     Req("GET", "environment", ""), Req("GET", "user", "")>>

-----------------------------------------------------------------------------
Init == ExInit /\ AuInit /\ TcInit /\ LroInit /\ WsInit /\ CrInit /\ RsInit
          /\ AiInit /\ ArInit

Next == ExNext

Spec == Init /\ [][Next]_vars

SpecAppUser == Init /\ [][AuNext]_vars

\* CreateApplicationUser runs on one thread of control: a step it can take
\* it takes (Execute returns, the sleep elapses).
SpecAppUserFair ==
    /\ Init
    /\ [][AuNext]_vars
    /\ WF_vars(AuPost)
    /\ WF_vars(AuSleepTick)
    /\ WF_vars(AuWake)
    /\ WF_vars(AuGet)

SpecToken == Init /\ [][TcNext]_vars

SpecLRO == Init /\ [][LroNext]_vars

SpecWebsite == Init /\ [][WsNext]_vars

SpecCred == Init /\ [][CrNext]_vars

SpecRest == Init /\ [][RsNext]_vars

SpecAppInstall == Init /\ [][AiNext]_vars

SpecAppUserResource == Init /\ [][ArNext]_vars

=============================================================================
